---- MODULE Spec2Model ----
(***************************************************************************)
(* Model of src/mcp_client.py: an interactive client that spawns tool      *)
(* servers (connect_to_servers), answers queries with one completion       *)
(* request plus one follow-up per dispatched tool call (process_query),    *)
(* reads queries from the console (chat_loop) and releases every acquired  *)
(* resource through an AsyncExitStack (cleanup, main).                     *)
(*                                                                         *)
(* Strings that the code inspects (launch paths, console lines) are        *)
(* sequences of one-character strings, so that endswith, strip and lower   *)
(* are computed rather than assumed.                                       *)
(***************************************************************************)
EXTENDS Integers, Sequences, FiniteSets, TLC

VARIABLES
    pc,               \* position of main: connect, prompt, pq_*, cleanup, done
    server_script_paths, \* sys.argv[1:]
    i,                \* index of the next launch path in connect_to_servers
    conns,            \* launch path of every spawned subprocess, in spawn order
    sessions,         \* self.sessions: insertion-ordered dict path -> connection
    initialized,      \* connections whose session.initialize() completed
    exit_stack,       \* self.exit_stack: entered contexts, last entered last
    released,         \* contexts whose exit was run by aclose(), in order
    close_failed,     \* contexts whose exit raised
    exc,              \* exception propagating out of main ("none" when none)
    console,          \* what the current step of main printed last
    line,             \* chat_loop: the line input() returned last
    query,            \* process_query: query
    messages,         \* process_query: messages
    available_tools,  \* process_query: available_tools
    tool_to_server,   \* process_query: tool_to_server
    final_text,       \* process_query: final_text
    tool_calls,       \* process_query: assistant_message.tool_calls
    k,                \* process_query: position in the tool_calls loop
    groq_response,    \* process_query: groq_response, <<>> before the first reply
    events,           \* requests issued by the current query, in order
    prior_results     \* an earlier query of this chat_loop left tool results

vars == <<pc, server_script_paths, i, conns, sessions, initialized, exit_stack,
          released, close_failed, exc, console, line, query, messages,
          available_tools, tool_to_server, final_text, tool_calls, k,
          groq_response, events, prior_results>>

connVars == <<conns, sessions, initialized, exit_stack>>
cleanupVars == <<released, close_failed>>
queryVars == <<query, messages, available_tools, tool_to_server, final_text,
               tool_calls, k, groq_response, events>>

----------------------------------------------------------------------------
(* Bounds *)

MaxServers == 3      \* launch paths on the command line
MaxToolCalls == 2    \* tool calls in one model response

----------------------------------------------------------------------------
(* Strings *)

None == "None"
NoLine == <<None>>     \* input() has returned no line

Str_py == <<".", "p", "y">>
Str_js == <<".", "j", "s">>
Str_quit == <<"q", "u", "i", "t">>

\* str.endswith
EndsWith(s, suffix) ==
    /\ Len(s) >= Len(suffix)
    /\ SubSeq(s, Len(s) - Len(suffix) + 1, Len(s)) = suffix

IsSpace(c) == c \in {" ", "\t"}

RECURSIVE LStrip(_)
LStrip(s) == IF s # <<>> /\ IsSpace(Head(s)) THEN LStrip(Tail(s)) ELSE s

RECURSIVE RStrip(_)
RStrip(s) ==
    IF s # <<>> /\ IsSpace(s[Len(s)]) THEN RStrip(SubSeq(s, 1, Len(s) - 1)) ELSE s

\* str.strip
Strip(s) == RStrip(LStrip(s))

LowerChar(c) ==
    CASE c = "Q" -> "q"
      [] c = "U" -> "u"
      [] c = "I" -> "i"
      [] c = "T" -> "t"
      [] c = "H" -> "h"
      [] OTHER -> c

\* str.lower
Lower(s) == [j \in DOMAIN s |-> LowerChar(s[j])]

\* "\n".join(final_text): the entries with a newline between neighbours
\* (an entry of final_text is a tuple: <<content>>, <<"NotFound", name>> or
\* <<"Called", name, path, arguments>>)
RECURSIVE Join(_)
Join(lines) ==
    IF lines = <<>> THEN <<>>
    ELSE IF Len(lines) = 1 THEN <<lines[1]>>
    ELSE <<lines[1], <<"\n">>>> \o Join(Tail(lines))

----------------------------------------------------------------------------
(* Inputs: launch paths, the tools each script serves, console lines *)

PathA == <<"a", ".", "p", "y">>
PathB == <<"b", ".", "j", "s">>
PathC == <<"c", ".", "p", "y">>
PathX == <<"x", "p", "y">>
LaunchPaths == {PathA, PathB, PathC, PathX}

\* the tool names a server started from the script lists, in listing order
ToolsOf(path) ==
    CASE path = PathA -> <<"add", "mul">>
      [] path = PathB -> <<"add">>
      [] path = PathC -> <<"mul">>
      [] OTHER -> <<>>

RECURSIVE SeqsUpTo(_, _)
SeqsUpTo(S, n) ==
    IF n = 0 THEN {<<>>}
    ELSE LET shorter == SeqsUpTo(S, n - 1)
         IN  shorter \cup {Append(s, x) : s \in {t \in shorter : Len(t) = n - 1}, x \in S}

ArgvChoices == SeqsUpTo(LaunchPaths, MaxServers) \ {<<>>}

InputLines ==
    { <<"q", "u", "i", "t">>,
      <<" ", "Q", "u", "i", "T", " ">>,
      <<"q", "u", "i", "t", "s">>,
      <<" ", "h", "i">> }

\* model replies
ArgsGood == <<"{", "}">>
ArgsBad == <<"{">>
ToolCallChoices ==
    { [name |-> "add", arguments |-> ArgsGood],
      [name |-> "mul", arguments |-> ArgsGood],
      [name |-> "nope", arguments |-> ArgsGood],
      [name |-> "add", arguments |-> ArgsBad] }
FirstResponses ==
    [content : {None, "text"}, tool_calls : SeqsUpTo(ToolCallChoices, MaxToolCalls)]
FollowUpResponses ==
    { [content |-> "answer", tool_calls |-> <<>>],
      [content |-> "answer", tool_calls |-> <<[name |-> "mul", arguments |-> ArgsGood]>>],
      [content |-> None, tool_calls |-> <<[name |-> "mul", arguments |-> ArgsGood]>>] }

\* mutant: a payload that does not parse is replaced by an empty object
JsonLoads_Lenient(s) ==
    IF Len(s) >= 2 /\ s[1] = "{" /\ s[Len(s)] = "}"
    THEN [ok |-> TRUE, value |-> SubSeq(s, 2, Len(s) - 1)]
    ELSE [ok |-> TRUE, value |-> <<>>]

\* json.loads on a tool call's arguments: an object, or a decode error
JsonLoads(s) ==
    IF Len(s) >= 2 /\ s[1] = "{" /\ s[Len(s)] = "}"
    THEN [ok |-> TRUE, value |-> SubSeq(s, 2, Len(s) - 1)]
    ELSE [ok |-> FALSE, value |-> None]

----------------------------------------------------------------------------
(* self.sessions: a dict keeps the position of a key's first insertion *)

DictHas(d, key) == \E j \in DOMAIN d : d[j].key = key

DictGet(d, key) == d[CHOOSE j \in DOMAIN d : d[j].key = key].value

DictPut(d, key, value) ==
    IF DictHas(d, key)
    THEN [j \in DOMAIN d |-> IF d[j].key = key THEN [key |-> key, value |-> value] ELSE d[j]]
    ELSE Append(d, [key |-> key, value |-> value])

EmptyQuery ==
    /\ query = NoLine
    /\ messages = <<>>
    /\ available_tools = <<>>
    /\ tool_to_server = <<>>
    /\ final_text = <<>>
    /\ tool_calls = <<>>
    /\ k = 0
    /\ groq_response = <<>>
    /\ events = <<>>

\* the locals of process_query are gone once chat_loop is left
ResetQuery ==
    /\ query' = NoLine
    /\ messages' = <<>>
    /\ available_tools' = <<>>
    /\ tool_to_server' = <<>>
    /\ final_text' = <<>>
    /\ tool_calls' = <<>>
    /\ k' = 0
    /\ groq_response' = <<>>
    /\ events' = <<>>

Init ==
    /\ pc = "connect"
    /\ server_script_paths \in ArgvChoices
    /\ i = 1
    /\ conns = <<>>
    /\ sessions = <<>>
    /\ initialized = {}
    /\ exit_stack = <<>>
    /\ released = <<>>
    /\ close_failed = {}
    /\ exc = "none"
    /\ console = <<>>
    /\ line = NoLine
    /\ EmptyQuery
    /\ prior_results = FALSE

----------------------------------------------------------------------------
(* connect_to_servers: one iteration of the loop over server_script_paths *)

\* mutant: the suffixes are tested without their dot
SupportedScript_NoDot(path) ==
    EndsWith(path, <<"p", "y">>) \/ EndsWith(path, <<"j", "s">>)

\* lines 30-34: the launch path is accepted
SupportedScript(path) == EndsWith(path, Str_py) \/ EndsWith(path, Str_js)

Stdio(c) == [kind |-> "stdio", conn |-> c]
Session(c) == [kind |-> "session", conn |-> c]

\* mutant: main has no try/finally, the exception ends the process
RaiseFromMain_NoFinally(e) ==
    /\ exc' = e
    /\ pc' = "done"

\* an exception leaves connect_to_servers or chat_loop: main's finally runs
RaiseFromMain(e) ==
    /\ exc' = e
    /\ pc' = "cleanup"

\* mutant: a launch path that fails is skipped and the loop goes on
ConnectFails_SkipServer(e) ==
    /\ i' = i + 1
    /\ UNCHANGED <<pc, exc>>

\* lines 29-52 hold no handler: a failure of one iteration leaves the loop
\* and connect_to_servers
ConnectFails(e) ==
    /\ RaiseFromMain(e)
    /\ UNCHANGED i

ConnectRejected ==
    /\ pc = "connect"
    /\ i <= Len(server_script_paths)
    /\ ~SupportedScript(server_script_paths[i])
    /\ ConnectFails("ValueError")
    /\ UNCHANGED <<server_script_paths, prior_results, connVars, cleanupVars, console, line, queryVars>>

\* stdio_client(server_params) fails to start the subprocess
ConnectSpawnFails ==
    /\ pc = "connect"
    /\ i <= Len(server_script_paths)
    /\ SupportedScript(server_script_paths[i])
    /\ ConnectFails("SpawnError")
    /\ UNCHANGED <<server_script_paths, prior_results, connVars, cleanupVars, console, line, queryVars>>

\* line 47 has completed when the body stops at stop
InitializeDone(stop) == stop \in {"list_tools", "ok"}

\* mutant: the session is entered in the mapping before its handshake
SessionStored_BeforeInitialize(stop) == stop \in {"initialize", "list_tools", "ok"}

\* line 48 has run when the body stops at stop
SessionStored(stop) == stop \in {"list_tools", "ok"}

\* lines 43-52 with the place where the body stops:
\* "session" (ClientSession not entered), "initialize", "list_tools", "ok"
ConnectServer ==
    /\ pc = "connect"
    /\ i <= Len(server_script_paths)
    /\ SupportedScript(server_script_paths[i])
    /\ LET path == server_script_paths[i]
           c == Len(conns) + 1
       IN  \E stop \in {"session", "initialize", "list_tools", "ok"} :
             /\ conns' = Append(conns, path)
             /\ exit_stack' = IF stop = "session"
                              THEN Append(exit_stack, Stdio(c))
                              ELSE exit_stack \o <<Stdio(c), Session(c)>>
             /\ initialized' = IF InitializeDone(stop)
                               THEN initialized \cup {c} ELSE initialized
             /\ sessions' = IF SessionStored(stop)
                            THEN DictPut(sessions, path, c) ELSE sessions
             /\ IF stop = "ok"
                THEN /\ console' = <<"Connected", path, ToolsOf(path)>>
                     /\ i' = i + 1
                     /\ UNCHANGED <<pc, exc>>
                ELSE /\ ConnectFails("ConnectionError")
                     /\ UNCHANGED console
    /\ UNCHANGED <<server_script_paths, prior_results, cleanupVars, line, queryVars>>

\* the loop is over; main enters chat_loop (lines 114-115)
StartChat ==
    /\ pc = "connect"
    /\ i > Len(server_script_paths)
    /\ pc' = "prompt"
    /\ console' = <<"MCP Client Started!">>
    /\ UNCHANGED <<server_script_paths, prior_results, i, connVars, cleanupVars, exc, line, queryVars>>

----------------------------------------------------------------------------
(* cleanup: AsyncExitStack.aclose() exits the contexts, last entered first; *)
(* an exit that raises does not keep the remaining exits from running, and  *)
(* the exception is raised once the stack is empty.                         *)

Top(stack) == stack[Len(stack)]

\* mutant: the first exit that raises ends the unwinding
AfterExit_StopOnError(stack, ok) ==
    IF ok THEN SubSeq(stack, 1, Len(stack) - 1) ELSE <<>>

\* what is left to exit after the top context's exit returned (ok) or raised
AfterExit(stack, ok) == SubSeq(stack, 1, Len(stack) - 1)

CleanupStep ==
    /\ pc = "cleanup"
    /\ exit_stack # <<>>
    /\ \E ok \in BOOLEAN :
         /\ released' = Append(released, Top(exit_stack))
         /\ close_failed' = IF ok THEN close_failed ELSE close_failed \cup {Top(exit_stack)}
         /\ exc' = IF ok THEN exc ELSE "CloseError"
         /\ exit_stack' = AfterExit(exit_stack, ok)
    /\ UNCHANGED <<pc, server_script_paths, prior_results, i, conns, sessions, initialized, console, line, queryVars>>

CleanupDone ==
    /\ pc = "cleanup"
    /\ exit_stack = <<>>
    /\ pc' = "done"
    /\ UNCHANGED <<server_script_paths, prior_results, i, connVars, cleanupVars, exc, console, line, queryVars>>

----------------------------------------------------------------------------
(* chat_loop *)

\* mutant: the line is compared as typed
IsQuit_Exact(ln) == ln = Str_quit

\* line 121, applied to the line input() returned (line 119 strips it)
IsQuit(ln) == Lower(Strip(ln)) = Str_quit

\* mutant: no handler, the exception leaves chat_loop
ChatLoopExcept_Propagates(e) ==
    /\ exc' = e
    /\ pc' = "cleanup"
    /\ UNCHANGED console

\* lines 127-128: the handler of an Exception raised inside the loop body
ChatLoopExcept(e) ==
    /\ console' = <<"Error", e>>
    /\ pc' = "prompt"
    /\ UNCHANGED exc

Raised(e) == [op |-> "raised", error |-> e]

\* an Exception is raised in the loop body after the requests in ev
Raise(ev, e) ==
    /\ events' = Append(ev, Raised(e))
    /\ ChatLoopExcept(e)

\* mutant: the conversation is kept on the client and grows from query to query
InitialMessages_Kept(previous, text) ==
    Append(previous, [role |-> "user", content |-> text])

\* line 56: the conversation a query starts with; previous is what the last
\* call of process_query left in its own messages
InitialMessages(previous, text) == <<[role |-> "user", content |-> text]>>

\* lines 119-124 up to the call of process_query, whose first statements
\* (lines 56-58) set up the query's locals
ReadLine ==
    /\ pc = "prompt"
    /\ \E ln \in InputLines :
         /\ line' = ln
         /\ IF IsQuit(ln)
            THEN /\ pc' = "cleanup"
                 /\ query' = NoLine
                 /\ messages' = <<>>
                 /\ prior_results' = FALSE
            ELSE /\ pc' = "pq_list"
                 /\ query' = Strip(ln)
                 /\ messages' = InitialMessages(messages, Strip(ln))
                 /\ prior_results' = (prior_results \/ Len(messages) > 1)
    /\ available_tools' = <<>>
    /\ tool_to_server' = <<>>
    /\ final_text' = <<>>
    /\ tool_calls' = <<>>
    /\ k' = 0
    /\ groq_response' = <<>>
    /\ events' = <<>>
    /\ console' = <<"Query: ">>
    /\ UNCHANGED <<server_script_paths, i, connVars, cleanupVars, exc>>

\* input() raises EOFError: the handler prints it and the loop goes on
ReadEOF ==
    /\ pc = "prompt"
    /\ console' = <<"Error", "EOFError">>
    /\ line' = NoLine
    /\ prior_results' = (prior_results \/ Len(messages) > 1)
    /\ ResetQuery
    /\ UNCHANGED <<pc, server_script_paths, i, connVars, cleanupVars, exc>>

\* KeyboardInterrupt at the prompt is no Exception: it leaves chat_loop
Interrupt ==
    /\ pc = "prompt"
    /\ RaiseFromMain("KeyboardInterrupt")
    /\ line' = NoLine
    /\ ResetQuery
    /\ console' = <<"Query: ">>
    /\ prior_results' = FALSE
    /\ UNCHANGED <<server_script_paths, i, connVars, cleanupVars>>

----------------------------------------------------------------------------
(* process_query *)

\* what the servers answer to list_tools during one query: "all" their tools,
\* or only the "first" (a server's tool set may change between queries)
ListingViews == {"all", "first"}

Listing(path, view) ==
    IF view = "all" THEN ToolsOf(path) ELSE SubSeq(ToolsOf(path), 1, 1)

\* session.list_tools() on connection c
ListTools(c, view) == Listing(conns[c], view)

\* lines 63-70
Schema(tool) == [type |-> "function", name |-> tool]

RECURSIVE PutTools(_, _, _)
PutTools(d, tools, path) ==
    IF tools = <<>> THEN d
    ELSE PutTools(DictPut(d, Head(tools), path), Tail(tools), path)

\* lines 60-71: tool_to_server after the loop over self.sessions.items()
\* mutant: the registry is built from the tool lists fetched at connect time
RECURSIVE Registry_ConnectTimeLists(_, _, _)
Registry_ConnectTimeLists(d, sess, view) ==
    IF sess = <<>> THEN d
    ELSE Registry_ConnectTimeLists(
             PutTools(d, ToolsOf(conns[Head(sess).value]), Head(sess).key), Tail(sess), view)

RECURSIVE Registry(_, _, _)
Registry(d, sess, view) ==
    IF sess = <<>> THEN d
    ELSE Registry(PutTools(d, ListTools(Head(sess).value, view), Head(sess).key),
                  Tail(sess), view)

RECURSIVE Schemas(_, _)
Schemas(sess, view) ==
    IF sess = <<>> THEN <<>>
    ELSE [j \in DOMAIN ListTools(Head(sess).value, view) |->
             Schema(ListTools(Head(sess).value, view)[j])]
         \o Schemas(Tail(sess), view)

ListEvents(sess, view) ==
    [j \in DOMAIN sess |-> [op |-> "list_tools", conn |-> sess[j].value,
                             result |-> ListTools(sess[j].value, view)]]

\* mutant: a session whose list_tools failed is dropped from the mapping
SessionsAfterListing_DropFailed(sess, failed) ==
    SelectSeq(sess, LAMBDA e : failed = 0 \/ e # sess[failed])

\* self.sessions after the loop of lines 60-71, in which list_tools failed on
\* the failed-th session (0: on none): the loop only reads the mapping
SessionsAfterListing(sess, failed) == sess

\* lines 60-71; list_tools may fail on the n-th session
PQListTools ==
    /\ pc = "pq_list"
    /\ \/ \E view \in ListingViews :
            /\ available_tools' = Schemas(sessions, view)
            /\ tool_to_server' = Registry(<<>>, sessions, view)
            /\ events' = events \o ListEvents(sessions, view)
            /\ sessions' = SessionsAfterListing(sessions, 0)
            /\ pc' = "pq_create"
            /\ UNCHANGED console
       \/ \E n \in DOMAIN sessions, view \in ListingViews :
            /\ Raise(events \o ListEvents(SubSeq(sessions, 1, n - 1), view), "McpError")
            /\ sessions' = SessionsAfterListing(sessions, n)
            /\ UNCHANGED <<available_tools, tool_to_server>>
    /\ UNCHANGED <<server_script_paths, prior_results, i, conns, initialized, exit_stack,
                   cleanupVars, exc, line, query, messages, final_text, tool_calls, k,
                   groq_response>>

\* lines 73-77: the first request of a query; the tools parameter of a request
\* is <<list>> when it is passed and <<>> when it is left out
FirstRequest(msgs, tools) == [op |-> "create", messages |-> msgs, tools |-> <<tools>>]

\* mutant: the request after a tool call passes the tool schemas again
FollowUpRequest_WithTools(msgs, tools) ==
    [op |-> "create", messages |-> msgs, tools |-> <<tools>>]

\* lines 104-107: the request after a tool call
FollowUpRequest(msgs, tools) == [op |-> "create", messages |-> msgs, tools |-> <<>>]

Truthy(content) == content # None /\ content # ""

\* mutant: the reply's content is appended without the test of line 82
FirstText_Unchecked(resp) == <<<<resp.content>>>>

\* lines 79-83: final_text after the first response
FirstText(resp) == IF Truthy(resp.content) THEN <<<<resp.content>>>> ELSE <<>>

\* mutant: the loop walks the tool calls from the last to the first
ToolCallAt_Reversed(calls, idx) == calls[Len(calls) + 1 - idx]

\* line 86: the tool call the loop handles in its idx-th iteration
ToolCallAt(calls, idx) == calls[idx]

\* mutant: an unknown name falls back on the path left in server_script_path
\* by the loop of line 60
Resolve_StalePath(registry, name) ==
    IF DictHas(registry, name) THEN DictGet(registry, name)
    ELSE sessions[Len(sessions)].key

\* line 90: tool_to_server.get(tool_name)
Resolve(registry, name) ==
    IF DictHas(registry, name) THEN DictGet(registry, name) ELSE None

\* line 110 and line 125: the joined text is returned and printed; join raises
\* TypeError on an entry that is None
Return(ev, text) ==
    IF \E j \in DOMAIN text : text[j] = <<None>>
    THEN Raise(ev, "TypeError")
    ELSE /\ events' = Append(ev, [op |-> "returned", value |-> Join(text)])
         /\ console' = <<"Response", Join(text)>>
         /\ pc' = "prompt"
         /\ UNCHANGED exc

\* lines 73-85
PQFirstCompletion ==
    /\ pc = "pq_create"
    /\ LET ev == Append(events, FirstRequest(messages, available_tools))
       IN  \/ \E e \in {"APIError", "IndexError"} :
                /\ Raise(ev, e)
                /\ UNCHANGED <<final_text, tool_calls, k, groq_response>>
           \/ \E resp \in FirstResponses :
                LET text == FirstText(resp)
                IN  /\ groq_response' = <<resp>>
                    /\ final_text' = text
                    /\ tool_calls' = resp.tool_calls
                    /\ IF resp.tool_calls # <<>>
                       THEN /\ k' = 1
                            /\ pc' = "pq_dispatch"
                            /\ events' = ev
                            /\ UNCHANGED <<console, exc>>
                       ELSE /\ k' = 0
                            /\ Return(ev, text)
    /\ UNCHANGED <<server_script_paths, prior_results, i, connVars, cleanupVars, line, query,
                   messages, available_tools, tool_to_server>>

CallTool(c, tc, idx, args) ==
    [op |-> "call_tool", conn |-> c, name |-> tc.name, arguments |-> args, index |-> idx]

\* str(result.content) of tool tc served by connection c
ToolResponseText(c, tc) == <<"result", c, tc.name, tc.arguments>>

\* lines 86-102: one tool call of the first response
PQDispatch ==
    /\ pc = "pq_dispatch"
    /\ k <= Len(tool_calls)
    /\ LET tc == ToolCallAt(tool_calls, k)
       IN  IF Resolve(tool_to_server, tc.name) = None
           THEN /\ final_text' = Append(final_text, <<"NotFound", tc.name>>)
                /\ k' = k + 1
                /\ UNCHANGED <<pc, console, exc, messages, events>>
           ELSE LET path == Resolve(tool_to_server, tc.name)
                    parsed == JsonLoads(tc.arguments)
                    c == DictGet(sessions, path)
                    ev == Append(events, CallTool(c, tc, k, parsed.value))
                IN  IF ~parsed.ok
                    THEN /\ Raise(events, "JSONDecodeError")
                         /\ UNCHANGED <<final_text, k, messages>>
                    ELSE \/ /\ Raise(ev, "McpError")
                            /\ UNCHANGED <<final_text, k, messages>>
                         \/ /\ final_text' = Append(final_text,
                                    <<"Called", tc.name, path, tc.arguments>>)
                            /\ messages' = Append(messages,
                                    [role |-> "user", content |-> ToolResponseText(c, tc)])
                            /\ events' = ev
                            /\ pc' = "pq_followup"
                            /\ UNCHANGED <<k, console, exc>>
    /\ UNCHANGED <<server_script_paths, prior_results, i, connVars, cleanupVars, line, query,
                   available_tools, tool_to_server, tool_calls, groq_response>>

\* lines 104-108: the request that follows a tool call, inside the loop
PQFollowUp ==
    /\ pc = "pq_followup"
    /\ LET ev == Append(events, FollowUpRequest(messages, available_tools))
       IN  \/ \E e \in {"APIError", "IndexError"} :
                /\ Raise(ev, e)
                /\ UNCHANGED <<final_text, k, groq_response>>
           \/ \E resp \in FollowUpResponses :
                /\ groq_response' = <<resp>>
                /\ final_text' = Append(final_text, <<resp.content>>)
                /\ k' = k + 1
                /\ pc' = "pq_dispatch"
                /\ events' = ev
                /\ UNCHANGED <<console, exc>>
    /\ UNCHANGED <<server_script_paths, prior_results, i, connVars, cleanupVars, line, query,
                   messages, available_tools, tool_to_server, tool_calls>>

\* the loop over tool_calls is over: line 110
PQReturn ==
    /\ pc = "pq_dispatch"
    /\ k > Len(tool_calls)
    /\ Return(events, final_text)
    /\ UNCHANGED <<server_script_paths, prior_results, i, connVars, cleanupVars, line, query, messages,
                   available_tools, tool_to_server, final_text, tool_calls, k,
                   groq_response>>

----------------------------------------------------------------------------

Next ==
    \/ ConnectRejected
    \/ ConnectSpawnFails
    \/ ConnectServer
    \/ StartChat
    \/ ReadLine
    \/ ReadEOF
    \/ Interrupt
    \/ PQListTools
    \/ PQFirstCompletion
    \/ PQDispatch
    \/ PQFollowUp
    \/ PQReturn
    \/ CleanupStep
    \/ CleanupDone

Spec == Init /\ [][Next]_vars

\* asyncio runs the awaits of aclose() to completion: cleanup, once entered,
\* is not abandoned
FairSpec == Spec /\ WF_vars(CleanupStep) /\ WF_vars(CleanupDone)

----------------------------------------------------------------------------
(* The requests a query has issued, read from its event history *)

IsCreate(e) == e.op = "create"
IsCall(e) == e.op = "call_tool"
Creates == SelectSeq(events, IsCreate)
CallsMade == SelectSeq(events, IsCall)
FollowUps == {q \in DOMAIN events : IsCreate(events[q]) /\ q > 1
                                     /\ \E p \in 1..(q - 1) : IsCreate(events[p])}
Returned == events # <<>> /\ events[Len(events)].op = "returned"
HasRaised == events # <<>> /\ events[Len(events)].op = "raised"
FirstResponseSeen == Len(Creates) >= 1 /\ groq_response # <<>>

Range(f) == {f[x] : x \in DOMAIN f}

IsList(e) == e.op = "list_tools"

\* some server of the sessions mapping listed the tool in this query
Exposed(name) == \E p \in DOMAIN events : IsList(events[p]) /\ name \in Range(events[p].result)

\* the positions of the first response's tool calls whose name resolves
ResolvableIdx ==
    SelectSeq([j \in 1..Len(tool_calls) |-> j], LAMBDA j : Exposed(tool_calls[j].name))

IsPrefix(a, b) == Len(a) <= Len(b) /\ a = SubSeq(b, 1, Len(a))

----------------------------------------------------------------------------
(* C1: a query whose first response has N >= 1 tool calls issues exactly   *)
(* one follow-up completion request, after all N calls were dispatched     *)
(* (two completion requests in all). Stated for queries that returned.     *)
C1_OneFollowUpAfterAll ==
    (Returned /\ Len(tool_calls) >= 1) =>
        /\ Cardinality(FollowUps) = 1
        /\ Len(Creates) = 2
        /\ \A q \in FollowUps : \A p \in DOMAIN events : IsCall(events[p]) => p < q

(* C2: call_tool is invoked once for each tool call of the first response  *)
(* whose name resolves, in the order the model listed them, and the tool   *)
(* results are appended to the conversation in that order. While the query *)
(* runs the calls made are a prefix of the resolvable ones; when it        *)
(* returns they are all of them.                                           *)
C2_DispatchInOrder ==
    LET made == CallsMade
        idxs == [n \in DOMAIN made |-> made[n].index]
        results == Len(messages) - 1
    IN  (events # <<>>) =>
        /\ IsPrefix(idxs, ResolvableIdx)
        /\ \A n \in DOMAIN made : made[n].name = tool_calls[idxs[n]].name
        /\ Returned => idxs = ResolvableIdx
        /\ results <= Len(made)
        /\ ~HasRaised => results = Len(made)
        /\ \A n \in 1..results :
             messages[n + 1].content
                = ToolResponseText(made[n].conn, tool_calls[idxs[n]])

C2_Witness ==
    /\ Returned
    /\ Len(CallsMade) = 2
    /\ CallsMade[1].name = "add"
    /\ CallsMade[2].name = "mul"
    /\ Len(messages) = 3

(* C3: a query whose first response has no tool calls issues exactly one   *)
(* completion request, invokes no tool, and returns that response's text.  *)
C3_NoToolCalls ==
    (FirstResponseSeen /\ tool_calls = <<>>) =>
        /\ Returned
        /\ pc = "prompt"
        /\ Len(Creates) = 1
        /\ CallsMade = <<>>
        /\ LET text == IF groq_response[1].content = None THEN <<>>
                       ELSE <<<<groq_response[1].content>>>>
           IN  /\ events[Len(events)].value = text
               /\ console = <<"Response", text>>

C3_Witness ==
    /\ Returned
    /\ tool_calls = <<>>
    /\ groq_response[1].content = "text"
    /\ console = <<"Response", <<<<"text">>>>>>
    /\ sessions # <<>>

(* C4: a tool call whose name is absent from the registry adds a           *)
(* "not found" diagnostic to the output, invokes call_tool on no           *)
(* connection, and the later tool calls of the batch are still processed.  *)
C4_NotFoundIsSkipped ==
    \A j \in 1..Len(tool_calls) :
        (~Exposed(tool_calls[j].name) /\ j < k) =>
            /\ \E n \in DOMAIN final_text : final_text[n] = <<"NotFound", tool_calls[j].name>>
            /\ Cardinality({n \in DOMAIN final_text : final_text[n][1] = "NotFound"})
                 = Cardinality({m \in 1..(k - 1) : ~Exposed(tool_calls[m].name)})
            /\ \A p \in DOMAIN events : IsCall(events[p]) => events[p].index # j
            /\ Returned =>
                 /\ k = Len(tool_calls) + 1
                 /\ \A m \in (j + 1)..Len(tool_calls) :
                      Exposed(tool_calls[m].name) =>
                        \E p \in DOMAIN events : IsCall(events[p]) /\ events[p].index = m

C4_Witness ==
    /\ Returned
    /\ Len(tool_calls) = 2
    /\ tool_calls[1].name = "nope"
    /\ Len(CallsMade) = 1
    /\ CallsMade[1].index = 2
    /\ final_text[1] = <<"NotFound", "nope">>

(* C5: a tool name exposed by more than one connected server resolves to  *)
(* the last-connected server that exposes it.                              *)
ToolNames == UNION {Range(ToolsOf(p)) : p \in LaunchPaths}
Exposing(name) ==
    {c \in DOMAIN conns :
        /\ c \in initialized
        /\ \E p \in DOMAIN events : /\ IsList(events[p])
                                     /\ conns[events[p].conn] = conns[c]
                                     /\ name \in Range(events[p].result)}
Latest(S) == CHOOSE c \in S : \A d \in S : d <= c

C5_LastConnectedWins ==
    (pc \in {"pq_create", "pq_dispatch", "pq_followup"}) =>
        \A name \in ToolNames :
            Cardinality(Exposing(name)) > 1 =>
                /\ DictHas(tool_to_server, name)
                /\ DictGet(sessions, DictGet(tool_to_server, name)) = Latest(Exposing(name))

(* C6: a launch path whose extension is neither .py nor .js is rejected    *)
(* with the unsupported-type error, and no subprocess is spawned for it.   *)
RecognizedExtension(path) ==
    /\ Len(path) >= 3
    /\ SubSeq(path, Len(path) - 2, Len(path)) \in {<<".", "p", "y">>, <<".", "j", "s">>}

C6_UnsupportedRejectedBeforeSpawn ==
    /\ \A c \in DOMAIN conns : RecognizedExtension(conns[c])
    /\ (i <= Len(server_script_paths) /\ ~RecognizedExtension(server_script_paths[i])
           /\ pc # "connect") =>
          /\ pc \in {"cleanup", "done"}
          /\ Len(conns) = i - 1
          /\ exc = "ValueError" \/ close_failed # {}

C6_Witness ==
    /\ pc = "cleanup"
    /\ exc = "ValueError"
    /\ i = 2
    /\ server_script_paths[2] = PathX
    /\ Len(conns) = 1
    /\ Len(exit_stack) = 2

(* C7: cleanup runs the close of every open connection, whichever closes   *)
(* fail; with three connections and a failing close of the second, the     *)
(* first and the third are closed when cleanup is over.                    *)
Acquired == {Stdio(c) : c \in DOMAIN conns} \cup {Session(c) : c \in initialized}

C7_CleanupClosesAll ==
    (pc \in {"cleanup", "done"}) =>
        /\ Acquired \subseteq (Range(released) \cup Range(exit_stack))
        /\ close_failed \subseteq Range(released)
        /\ pc = "done" => (exit_stack = <<>> /\ Acquired \subseteq Range(released))

C7_Witness ==
    /\ pc = "done"
    /\ Len(conns) = 3
    /\ initialized = {1, 2, 3}
    /\ close_failed = {Session(2)}
    /\ Range(released) = {Stdio(1), Session(1), Stdio(2), Session(2), Stdio(3), Session(3)}

(* C8: an error raised while a query is processed is caught by chat_loop   *)
(* and printed, and the shell is back at its prompt: neither the loop nor  *)
(* the process ends.                                                       *)
C8_ErrorsCaught ==
    HasRaised =>
        /\ pc = "prompt"
        /\ exc = "none"
        /\ console = <<"Error", events[Len(events)].error>>
        /\ released = <<>>

C8_Witness ==
    /\ HasRaised
    /\ events[Len(events)].error = "McpError"
    /\ Len(CallsMade) = 1
    /\ pc = "prompt"

(* C9 as stated: chat_loop ends on a line exactly when the line is quit.   *)
C9_QuitOnlyOnExactSentinel ==
    (line # NoLine) => ((pc \in {"cleanup", "done"}) <=> (line = Str_quit))

(* C9, amended: chat_loop ends on a line exactly when the line, stripped   *)
(* of surrounding blanks and lower-cased, is quit; any other line is       *)
(* passed, stripped, to process_query, whose output is printed when it     *)
(* returns.                                                                *)
C9_QuitAfterStripAndLower ==
    (line # NoLine) =>
        /\ (pc \in {"cleanup", "done"}) <=> (Lower(Strip(line)) = Str_quit)
        /\ (pc \notin {"cleanup", "done"}) =>
              /\ query = Strip(line)
              /\ messages[1] = [role |-> "user", content |-> Strip(line)]
              /\ Returned => (pc = "prompt"
                              /\ console = <<"Response", events[Len(events)].value>>)

C9_Witness ==
    /\ pc = "cleanup"
    /\ line = <<" ", "Q", "u", "i", "T", " ">>
    /\ exc = "none"

(* C10: within a query only the first completion request carries tool      *)
(* schemas, every later request carries none, and the tool calls of a      *)
(* follow-up reply are never dispatched: every call_tool is a tool call of *)
(* the first reply.                                                        *)
C10_ToolsRequestedOnce ==
    /\ \A n \in DOMAIN Creates :
         /\ n = 1 => Creates[n].tools = <<available_tools>>
         /\ n > 1 => Creates[n].tools = <<>>
    /\ Len(CallsMade) <= Len(tool_calls)
    /\ \A n \in DOMAIN CallsMade :
         /\ CallsMade[n].index \in 1..Len(tool_calls)
         /\ CallsMade[n].name = tool_calls[CallsMade[n].index].name
         /\ \A m \in DOMAIN CallsMade : m < n => CallsMade[m].index < CallsMade[n].index

C10_Witness ==
    /\ Returned
    /\ Len(Creates) = 3
    /\ groq_response[1].tool_calls # <<>>
    /\ Len(CallsMade) = 2
    /\ available_tools # <<>>

(* C11: when the arguments of a resolvable tool call do not parse, the     *)
(* query ends with an error and no output, and neither that call nor any   *)
(* later call of the batch is invoked on a connection.                     *)
Unparsable(tc) == tc.arguments = ArgsBad

C11_MalformedArgumentsFatal ==
    \A j \in 1..Len(tool_calls) :
        (Exposed(tool_calls[j].name) /\ Unparsable(tool_calls[j])) =>
            /\ k <= j
            /\ ~Returned
            /\ \A p \in DOMAIN events : IsCall(events[p]) => events[p].index < j
            /\ (pc = "prompt") =>
                  /\ HasRaised
                  /\ console = <<"Error", events[Len(events)].error>>
            /\ (HasRaised /\ k = j) => events[Len(events)].error = "JSONDecodeError"

C11_Witness ==
    /\ HasRaised
    /\ events[Len(events)].error = "JSONDecodeError"
    /\ Len(tool_calls) = 2
    /\ k = 1
    /\ Exposed(tool_calls[2].name)
    /\ ~Unparsable(tool_calls[2])
    /\ CallsMade = <<>>
    /\ pc = "prompt"

(* C12: when a query dispatched at least one tool call, the output it      *)
(* returns holds one diagnostic entry per dispatched call (tool, server,   *)
(* arguments) and its last entry is the text of the follow-up reply.       *)
CalledEntries == SelectSeq(final_text, LAMBDA t : t[1] = "Called")

C12_OutputEndsWithFollowUp ==
    (Returned /\ Len(CallsMade) >= 1) =>
        /\ Len(CalledEntries) = Len(CallsMade)
        /\ \A n \in DOMAIN CallsMade :
             LET tc == tool_calls[CallsMade[n].index]
             IN  CalledEntries[n]
                   = <<"Called", tc.name, conns[CallsMade[n].conn], tc.arguments>>
        /\ events[Len(events)].value = Join(final_text)
        /\ final_text[Len(final_text)] = <<groq_response[1].content>>

(* C13: the conversation does not carry over between queries: the first   *)
(* completion request of every query carries exactly one message, the user *)
(* message holding that query's text, whatever earlier queries left.       *)
C13_FreshConversation ==
    /\ (pc = "pq_list") => messages = <<[role |-> "user", content |-> query]>>
    /\ (Len(Creates) >= 1) =>
          /\ query = Strip(line)
          /\ Creates[1].messages = <<[role |-> "user", content |-> query]>>

C13_Witness ==
    /\ prior_results
    /\ Len(Creates) >= 1
    /\ Len(Creates[1].messages) = 1
    /\ Len(messages) > 1

(* C14: on every connection initialize has completed before list_tools or *)
(* call_tool is issued on it, and a session is in the sessions mapping     *)
(* only after its initialize has completed.                                *)
C14_InitializeFirst ==
    /\ \A j \in DOMAIN sessions : sessions[j].value \in initialized
    /\ \A p \in DOMAIN events :
         (events[p].op \in {"list_tools", "call_tool"}) => events[p].conn \in initialized
    /\ (console # <<>> /\ console[1] = "Connected") =>
          \E c \in initialized : conns[c] = console[2]
    /\ initialized \subseteq DOMAIN conns

C14_Witness ==
    /\ Len(CallsMade) = 1
    /\ CallsMade[1].conn = 2
    /\ initialized = {1, 2}
    /\ \E p \in DOMAIN events : IsList(events[p]) /\ events[p].conn = 2

(* C15: the sessions mapping is written by connect_to_servers only: every *)
(* step of chat_loop and process_query, a failing one included, leaves it  *)
(* as it was.                                                              *)
C15_SessionsWrittenAtStartupOnly ==
    [][(pc # "connect") => (sessions' = sessions)]_vars

C15_Witness ==
    /\ HasRaised
    /\ events[Len(events)].error = "McpError"
    /\ Len(events) = 2
    /\ IsList(events[1])
    /\ Len(sessions) = 2
    /\ pc = "prompt"

(* C16 as stated: when connecting the i-th launch path fails,             *)
(* connect_to_servers raises at once, no later path is spawned, no query   *)
(* is processed, and only the connections of the paths before the i-th     *)
(* are left to release.                                                    *)
ConnectFailed == pc \in {"cleanup", "done"} /\ i <= Len(server_script_paths)
ToRelease == {r.conn : r \in Range(exit_stack) \cup Range(released)}
NoQueryProcessed == events = <<>> /\ line = NoLine /\ messages = <<>>

C16_OnlyEarlierConnectionsLeft ==
    ConnectFailed =>
        /\ exc # "none"
        /\ Len(conns) <= i
        /\ NoQueryProcessed
        /\ ToRelease = 1..(i - 1)

(* C16, amended: as above, except that what is left to release is the      *)
(* connections of the paths before the i-th together with the i-th path's  *)
(* own subprocess when the failure came after its spawn; and chat_loop     *)
(* starts only when every launch path was connected.                       *)
C16_FailFast ==
    /\ ConnectFailed =>
          /\ exc # "none"
          /\ Len(conns) \in {i - 1, i}
          /\ \A c \in DOMAIN conns : conns[c] = server_script_paths[c]
          /\ 1..(i - 1) \subseteq initialized
          /\ NoQueryProcessed
          /\ ToRelease = 1..Len(conns)
    /\ (pc \notin {"connect", "cleanup", "done"}) =>
          /\ Len(conns) = Len(server_script_paths)
          /\ \A c \in DOMAIN conns : conns[c] = server_script_paths[c] /\ c \in initialized

C16_Witness ==
    /\ pc = "cleanup"
    /\ Len(server_script_paths) = 3
    /\ i = 2
    /\ Len(conns) = 2
    /\ initialized = {1}
    /\ Len(exit_stack) = 4
    /\ exc = "ConnectionError"

(* C17: after connect_to_servers succeeded, every spawned subprocess is    *)
(* owned by exactly one entry of the sessions mapping: there are as many   *)
(* entries as subprocesses, and each spawned server's tools are listed     *)
(* when a query rebuilds the registry.                                     *)
C17_EverySubprocessInMapping ==
    (pc # "connect" /\ i > Len(server_script_paths)) =>
        /\ Len(sessions) = Len(conns)
        /\ \A c \in DOMAIN conns :
             Cardinality({j \in DOMAIN sessions : sessions[j].value = c}) = 1
        /\ (Len(Creates) >= 1) =>
              \A c \in DOMAIN conns :
                 \E p \in DOMAIN events : IsList(events[p]) /\ events[p].conn = c

(* C18: call_tool(name) is issued only on a connection that is in the     *)
(* sessions mapping and whose list_tools result, fetched earlier in the    *)
(* same query, contained name.                                             *)
C18_CallsOnlyAdvertisedTools ==
    \A p \in DOMAIN events :
        IsCall(events[p]) =>
            /\ \E j \in DOMAIN sessions : sessions[j].value = events[p].conn
            /\ \E q \in 1..(p - 1) :
                 /\ IsList(events[q])
                 /\ events[q].conn = events[p].conn
                 /\ events[p].name \in Range(events[q].result)

C18_Witness ==
    /\ Len(CallsMade) = 1
    /\ CallsMade[1].name = "add"
    /\ conns[CallsMade[1].conn] = PathA
    /\ \E q \in DOMAIN events :
         IsList(events[q]) /\ events[q].conn = CallsMade[1].conn /\ events[q].result = <<"add">>
    /\ Returned

(* C19: on every run of main past the argument check, cleanup runs and    *)
(* every subprocess and session opened during the run is released before   *)
(* the process ends, whether the run ends by quit, by a connection failure *)
(* or by an error escaping chat_loop: main ends only with everything       *)
(* released, every way out of connect_to_servers and chat_loop leads into  *)
(* cleanup, and cleanup, once entered, comes to its end.                   *)
Running == pc \notin {"cleanup", "done"}

C19_CleanupAlwaysRuns ==
    /\ [](pc = "done" => (exit_stack = <<>> /\ Acquired \subseteq Range(released)))
    /\ [][(Running /\ ~Running') => (pc' = "cleanup")]_vars
    /\ (pc = "cleanup") ~> (pc = "done")

C19_Witness ==
    /\ pc = "done"
    /\ exc = "KeyboardInterrupt"
    /\ Len(conns) = 2
    /\ Range(released) = {Stdio(1), Session(1), Stdio(2), Session(2)}

====
